---- MODULE Spec2Model ----
(***************************************************************************)
(* Pinecone_Loader: a Word document is read, split into overlapping        *)
(* chunks, embedded and upserted into a vector index.                      *)
(*                                                                         *)
(* Text is a sequence of one-character strings.  A code point outside      *)
(* ASCII is written as its name, "U+00E9".                                 *)
(***************************************************************************)
EXTENDS Integers, Sequences, FiniteSets, TLC

VARIABLES
    CHUNK_SIZE,      \* text_splitter.CHUNK_SIZE, set when the module is imported
    CHUNK_OVERLAP,   \* text_splitter.CHUNK_OVERLAP
    pc,              \* where the running process is
    argv,            \* the command line: "path", "none", "extra" or "help"
    file_path,       \* the path being processed
    document_text,   \* process_document's document_text
    text_chunks,     \* process_document's text_chunks
    embeddings,      \* process_document's embeddings
    result,          \* what store_embeddings returned
    error,           \* the exception that ended a step: [exc, msg]
    success,         \* what process_document returned: "True", "False", or "" before
    exit_code,       \* the process's exit status, -1 while it runs
    steps,           \* the pipeline steps started in this run, in order
    upserts,         \* the batches sent to index.upsert in this run, in order
    index,           \* the Pinecone index: vector id -> record
    index_before,    \* the index as it was when this run of the command started
    clock,           \* the number of process runs started so far
    chunk_index,     \* generate_vector_id's chunk_index argument
    vector_id,       \* generate_vector_id's return value
    metadata         \* create_metadata's return value

vars == <<CHUNK_SIZE, CHUNK_OVERLAP, pc, argv, file_path, document_text,
          text_chunks, embeddings, result, error, success, exit_code, steps, upserts,
          index, index_before, clock, chunk_index, vector_id, metadata>>

----------------------------------------------------------------------------
(* Bounds of the model *)

MaxTextLen == 5
MaxChunkSize == 3
MaxNameLen == 3
MaxIndex == 11
MaxRuns == 2

----------------------------------------------------------------------------
(* Strings *)

Whitespace == {" ", "\n", "\t"}

RECURSIVE LStrip(_)
LStrip(s) ==
    IF s # <<>> /\ Head(s) \in Whitespace THEN LStrip(Tail(s)) ELSE s

RECURSIVE RStrip(_)
RStrip(s) ==
    IF s # <<>> /\ s[Len(s)] \in Whitespace
    THEN RStrip(SubSeq(s, 1, Len(s) - 1))
    ELSE s

\* str.strip()
Strip(s) == RStrip(LStrip(s))

\* separator.join(docs)
RECURSIVE Join(_, _)
Join(docs, separator) ==
    IF docs = <<>> THEN <<>>
    ELSE IF Len(docs) = 1 THEN docs[1]
    ELSE docs[1] \o separator \o Join(Tail(docs), separator)

\* s.startswith(p), for the text from position i on
MatchAt(s, p, i) ==
    /\ i + Len(p) - 1 <= Len(s)
    /\ \A k \in 1..Len(p) : s[i + k - 1] = p[k]

\* the position of the leftmost occurrence of the non-empty p in s, 0 if none
Find(s, p) ==
    LET hits == {i \in 1..Len(s) : MatchAt(s, p, i)}
    IN  IF hits = {} THEN 0 ELSE CHOOSE i \in hits : \A j \in hits : i <= j

\* [x for x in seq if x != ""]
RECURSIVE NonEmpty(_)
NonEmpty(seq) ==
    IF seq = <<>> THEN <<>>
    ELSE IF Head(seq) = <<>> THEN NonEmpty(Tail(seq))
    ELSE <<Head(seq)>> \o NonEmpty(Tail(seq))

----------------------------------------------------------------------------
(* langchain's RecursiveCharacterTextSplitter, as split_text configures it: *)
(* keep_separator and strip_whitespace keep their defaults (True), the      *)
(* separators are literal strings.                                           *)

Separators ==
    << <<"\n", "\n">>, <<"\n">>, <<".", " ">>, <<"!", " ">>, <<"?", " ">>,
       <<";", " ">>, <<",", " ">>, <<" ">>, <<>> >>

\* re.split(separator, text): the texts between the occurrences
RECURSIVE ReSplit(_, _)
ReSplit(text, separator) ==
    LET i == Find(text, separator)
    IN  IF i = 0 THEN <<text>>
        ELSE <<SubSeq(text, 1, i - 1)>>
             \o ReSplit(SubSeq(text, i + Len(separator), Len(text)), separator)

\* _split_text_with_regex(text, separator, keep_separator = True): each
\* separator stays at the head of the piece that follows it
SplitTextWithRegex(text, separator) ==
    IF separator = <<>>
    THEN NonEmpty([i \in 1..Len(text) |-> <<text[i]>>])
    ELSE LET parts == ReSplit(text, separator)
         IN  NonEmpty([k \in 1..Len(parts) |->
                         IF k = 1 THEN parts[1] ELSE separator \o parts[k]])

\* TextSplitter._join_docs: None is the empty sequence of documents
JoinDocs(docs, separator) ==
    LET text == Strip(Join(docs, separator))
    IN  IF text = <<>> THEN <<>> ELSE <<text>>

\* the popping loop of _merge_splits: [doc, total] once it stops
RECURSIVE PopDocs(_, _, _, _, _, _)
PopDocs(current_doc, total, len, separator_len, chunk_size, chunk_overlap) ==
    IF \/ total > chunk_overlap
       \/ /\ total + len + (IF Len(current_doc) > 0 THEN separator_len ELSE 0)
               > chunk_size
          /\ total > 0
    THEN PopDocs(Tail(current_doc),
                 total - (Len(current_doc[1])
                          + (IF Len(current_doc) > 1 THEN separator_len ELSE 0)),
                 len, separator_len, chunk_size, chunk_overlap)
    ELSE [doc |-> current_doc, total |-> total]

\* the for loop of _merge_splits from split k on
RECURSIVE MergeLoop(_, _, _, _, _, _, _, _)
MergeLoop(splits, k, docs, current_doc, total, separator, chunk_size, chunk_overlap) ==
    IF k > Len(splits)
    THEN docs \o JoinDocs(current_doc, separator)
    ELSE
      LET d == splits[k]
          len == Len(d)
          separator_len == Len(separator)
          flush == total + len
                     + (IF Len(current_doc) > 0 THEN separator_len ELSE 0)
                   > chunk_size
          emit == flush /\ Len(current_doc) > 0
          docs1 == IF emit THEN docs \o JoinDocs(current_doc, separator) ELSE docs
          popped == IF emit
                    THEN PopDocs(current_doc, total, len, separator_len,
                                 chunk_size, chunk_overlap)
                    ELSE [doc |-> current_doc, total |-> total]
          doc2 == Append(popped.doc, d)
          total2 == popped.total + len
                      + (IF Len(doc2) > 1 THEN separator_len ELSE 0)
      IN  MergeLoop(splits, k + 1, docs1, doc2, total2, separator,
                    chunk_size, chunk_overlap)

\* TextSplitter._merge_splits
MergeSplits(splits, separator, chunk_size, chunk_overlap) ==
    MergeLoop(splits, 1, <<>>, <<>>, 0, separator, chunk_size, chunk_overlap)

\* the separator _split_text picks: the first one that is "" or occurs in text
RECURSIVE PickSeparator(_, _, _)
PickSeparator(text, separators, i) ==
    IF i > Len(separators)
    THEN [separator |-> separators[Len(separators)], new_separators |-> <<>>]
    ELSE IF separators[i] = <<>>
    THEN [separator |-> <<>>, new_separators |-> <<>>]
    ELSE IF Find(text, separators[i]) # 0
    THEN [separator |-> separators[i],
          new_separators |-> SubSeq(separators, i + 1, Len(separators))]
    ELSE PickSeparator(text, separators, i + 1)

\* RecursiveCharacterTextSplitter._split_text
RECURSIVE SplitTextRec(_, _, _, _)
RECURSIVE SplitLoop(_, _, _, _, _, _, _)
SplitLoop(splits, k, final_chunks, good_splits, new_separators, chunk_size, chunk_overlap) ==
    IF k > Len(splits)
    THEN IF good_splits # <<>>
         THEN final_chunks \o MergeSplits(good_splits, <<>>, chunk_size, chunk_overlap)
         ELSE final_chunks
    ELSE
      LET s == splits[k]
      IN  IF Len(s) < chunk_size
          THEN SplitLoop(splits, k + 1, final_chunks, Append(good_splits, s),
                         new_separators, chunk_size, chunk_overlap)
          ELSE
            LET merged == IF good_splits # <<>>
                          THEN final_chunks
                               \o MergeSplits(good_splits, <<>>, chunk_size, chunk_overlap)
                          ELSE final_chunks
                other == IF new_separators = <<>>
                         THEN <<s>>
                         ELSE SplitTextRec(s, new_separators, chunk_size, chunk_overlap)
            IN  SplitLoop(splits, k + 1, merged \o other, <<>>,
                          new_separators, chunk_size, chunk_overlap)

SplitTextRec(text, separators, chunk_size, chunk_overlap) ==
    LET pick == PickSeparator(text, separators, 1)
        splits == SplitTextWithRegex(text, pick.separator)
    IN  SplitLoop(splits, 1, <<>>, <<>>, pick.new_separators, chunk_size, chunk_overlap)

----------------------------------------------------------------------------
(* text_splitter.split_text *)

Raise(exc, msg) == [ok |-> FALSE, exc |-> exc, msg |-> msg, value |-> <<>>]
Return(value) == [ok |-> TRUE, exc |-> "", msg |-> "", value |-> value]

\* chunks passed on as the splitter returned them
UncleanedChunks(chunks) == chunks

\* a filter that also drops the chunks of a single character
RECURSIVE LongerThanOne(_)
LongerThanOne(seq) ==
    IF seq = <<>> THEN <<>>
    ELSE IF Len(Head(seq)) <= 1 THEN LongerThanOne(Tail(seq))
    ELSE <<Head(seq)>> \o LongerThanOne(Tail(seq))

CleanedChunksDropShort(chunks) ==
    LongerThanOne([k \in 1..Len(chunks) |-> Strip(chunks[k])])

\* [chunk.strip() for chunk in chunks if chunk.strip()]
CleanedChunks(chunks) == NonEmpty([k \in 1..Len(chunks) |-> Strip(chunks[k])])

\* a split_text whose first check is "if not document_text" alone
SplitTextNoBlankCheck(text, chunk_size, chunk_overlap) ==
    IF text = <<>>
    THEN Raise("ValueError", "Document text cannot be empty")
    ELSE IF chunk_overlap > chunk_size
    THEN Raise("Exception", "Error splitting text: larger chunk overlap than chunk size")
    ELSE LET cleaned_chunks ==
                 CleanedChunks(SplitTextRec(text, Separators, chunk_size, chunk_overlap))
         IN  IF cleaned_chunks = <<>>
             THEN Raise("Exception",
                        "Error splitting text: No valid chunks created from document text")
             ELSE Return(cleaned_chunks)

\* split_text(document_text) under the module's CHUNK_SIZE and CHUNK_OVERLAP
SplitText(text, chunk_size, chunk_overlap) ==
    IF text = <<>> \/ Strip(text) = <<>>
    THEN Raise("ValueError", "Document text cannot be empty")
    ELSE IF chunk_overlap > chunk_size
    THEN Raise("Exception", "Error splitting text: larger chunk overlap than chunk size")
    ELSE LET cleaned_chunks ==
                 CleanedChunks(SplitTextRec(text, Separators, chunk_size, chunk_overlap))
         IN  IF cleaned_chunks = <<>>
             THEN Raise("Exception",
                        "Error splitting text: No valid chunks created from document text")
             ELSE Return(cleaned_chunks)

----------------------------------------------------------------------------
(* Characters *)

UpperCase == <<"A", "B", "C", "D", "E", "F", "G", "H", "I", "J", "K", "L", "M",
               "N", "O", "P", "Q", "R", "S", "T", "U", "V", "W", "X", "Y", "Z">>
LowerCase == <<"a", "b", "c", "d", "e", "f", "g", "h", "i", "j", "k", "l", "m",
               "n", "o", "p", "q", "r", "s", "t", "u", "v", "w", "x", "y", "z">>
Digits == <<"0", "1", "2", "3", "4", "5", "6", "7", "8", "9">>

Range(f) == {f[i] : i \in DOMAIN f}

AsciiAlnum == Range(UpperCase) \cup Range(LowerCase) \cup Range(Digits)

\* the code points of the model at or above 128: e with acute accent, the
\* combining acute accent, a CJK ideograph
NonAscii == {"U+00E9", "U+0301", "U+4E2D"}

\* ord(c) < 128
IsAscii(c) == c \notin NonAscii

\* c.isalnum(): letters and digits of any script, no combining mark
IsAlnum(c) == c \in AsciiAlnum \cup {"U+00E9", "U+4E2D"}

\* c.lower()
Lower(c) ==
    IF c \in Range(UpperCase)
    THEN LowerCase[CHOOSE i \in DOMAIN UpperCase : UpperCase[i] = c]
    ELSE c

\* unicodedata.normalize('NFD', c) of one code point
Decompose(c) == IF c = "U+00E9" THEN <<"e", "U+0301">> ELSE <<c>>

\* unicodedata.normalize('NFD', s)
RECURSIVE NFD(_)
NFD(s) == IF s = <<>> THEN <<>> ELSE Decompose(Head(s)) \o NFD(Tail(s))

\* ''.join(c for c in s if ord(c) < 128)
RECURSIVE AsciiOnly(_)
AsciiOnly(s) ==
    IF s = <<>> THEN <<>>
    ELSE IF IsAscii(Head(s)) THEN <<Head(s)>> \o AsciiOnly(Tail(s))
    ELSE AsciiOnly(Tail(s))

\* str(n) of an integer
RECURSIVE NatStr(_)
NatStr(n) ==
    IF n < 10 THEN <<Digits[n + 1]>>
    ELSE NatStr(n \div 10) \o <<Digits[(n % 10) + 1]>>

IntStr(n) == IF n < 0 THEN <<"-">> \o NatStr(0 - n) ELSE NatStr(n)

----------------------------------------------------------------------------
(* pathlib.Path *)

\* the components of a path: empty and "." components are dropped
PathParts(path) ==
    LET raw == ReSplit(path, <<"/">>)
    IN  NonEmpty([k \in 1..Len(raw) |-> IF raw[k] = <<".">> THEN <<>> ELSE raw[k]])

\* Path(path).name
PathName(path) ==
    LET parts == PathParts(path)
    IN  IF parts = <<>> THEN <<>> ELSE parts[Len(parts)]

\* name.rfind('.'), counted from 1; 0 if there is none
RFindDot(name) ==
    LET dots == {i \in 1..Len(name) : name[i] = "."}
    IN  IF dots = {} THEN 0 ELSE CHOOSE i \in dots : \A j \in dots : j <= i

\* Path(path).suffix
PathSuffix(path) ==
    LET name == PathName(path)
        i == RFindDot(name)
    IN  IF 1 < i /\ i < Len(name) THEN SubSeq(name, i, Len(name)) ELSE <<>>

\* Path(path).stem
PathStem(path) ==
    LET name == PathName(path)
        i == RFindDot(name)
    IN  IF 1 < i /\ i < Len(name) THEN SubSeq(name, 1, i - 1) ELSE name

\* str(Path(path))
PathStr(path) ==
    LET body == Join(PathParts(path), <<"/">>)
    IN  IF path # <<>> /\ Head(path) = "/" THEN <<"/">> \o body
        ELSE IF body = <<>> THEN <<".">>
        ELSE body

----------------------------------------------------------------------------
(* pinecone_store: create_metadata, generate_vector_id *)

\* create_metadata(text_chunk, file_path, chunk_index), at time now
CreateMetadata(text_chunk, path, i, now) ==
    [text |-> text_chunk,
     source |-> PathName(path),
     file_path |-> PathStr(path),
     chunk_index |-> i,
     chunk_length |-> Len(text_chunk),
     timestamp |-> now,
     document_type |-> "word_document"]

\* a clean_name that skips the ASCII filter
CleanNameKeepsNonAscii(path) ==
    LET base_name == PathStem(path)
        normalized == NFD(base_name)
        clean_name == [k \in 1..Len(normalized) |->
                         IF IsAlnum(normalized[k]) THEN normalized[k] ELSE "_"]
    IN  Join(NonEmpty(ReSplit(clean_name, <<"_">>)), <<"_">>)

\* clean_name: the stem made ASCII, non-alphanumerics replaced by "_", runs of
\* "_" collapsed
CleanName(path) ==
    LET base_name == PathStem(path)
        normalized == NFD(base_name)
        ascii_name == AsciiOnly(normalized)
        clean_name == [k \in 1..Len(ascii_name) |->
                         IF IsAlnum(ascii_name[k]) THEN ascii_name[k] ELSE "_"]
    IN  Join(NonEmpty(ReSplit(clean_name, <<"_">>)), <<"_">>)

ChunkTag == <<"_", "c", "h", "u", "n", "k", "_">>

\* generate_vector_id(file_path, chunk_index)
GenerateVectorId(path, i) == CleanName(path) \o ChunkTag \o IntStr(i)

\* the metadata variable before create_metadata has returned
NoMetadata ==
    [text |-> <<>>, source |-> <<>>, file_path |-> <<>>, chunk_index |-> 0,
     chunk_length |-> 0, timestamp |-> 0, document_type |-> ""]

\* a generate_vector_id that refuses an empty source name
GenerateVectorIdChecked(path, i) ==
    IF path = <<>>
    THEN [ok |-> FALSE, exc |-> "ValueError", msg |-> "Source name cannot be empty",
          value |-> <<>>]
    ELSE [ok |-> TRUE, exc |-> "", msg |-> "", value |-> GenerateVectorId(path, i)]

\* how a call of generate_vector_id ends: it has no raise statement
GenerateVectorIdCall(path, i) ==
    [ok |-> TRUE, exc |-> "", msg |-> "", value |-> GenerateVectorId(path, i)]

\* how a call of create_metadata ends: it has no raise statement
CreateMetadataCall(text_chunk, path, i, now) ==
    [ok |-> TRUE, exc |-> "", msg |-> "",
     value |-> CreateMetadata(text_chunk, path, i, now)]

----------------------------------------------------------------------------
(* The inputs of the model *)

BoundedSeq(S, n) == UNION {[1..k -> S] : k \in 0..n}

\* the configurations: the splitter refuses an overlap above the chunk size
Configs == (1..MaxChunkSize) \X (0..MaxChunkSize)

\* the texts split_text is given
TextAlphabet == {"a", " ", "\n", "."}
Texts == BoundedSeq(TextAlphabet, MaxTextLen)

\* the source names generate_vector_id is given
NameAlphabet == {"a", "B", "1", "_", " ", ".", "/", "U+00E9", "U+4E2D"}
Names == BoundedSeq(NameAlphabet, MaxNameLen)

\* the files of the command line: "a b.docx", "d/a_b.DOC", "n.txt", "m.docx"
PathSpace == <<"a", " ", "b", ".", "d", "o", "c", "x">>
PathUnder == <<"d", "/", "a", "_", "b", ".", "D", "O", "C">>
PathText == <<"n", ".", "t", "x", "t">>
PathMissing == <<"m", ".", "d", "o", "c", "x">>
Paths == {PathSpace, PathUnder, PathText, PathMissing}

\* file_path.exists()
Exists(path) == path \in {PathSpace, PathUnder, PathText}

\* the paragraphs python-docx finds in a document
DocumentBodies ==
    { <<>>,
      << <<" ">> >>,
      << <<"a", "b">> >>,
      << <<"a", " ", "b", " ">>, <<>>, <<"c">> >> }

NoError == [exc |-> "", msg |-> ""]
Error(r) == [exc |-> r.exc, msg |-> r.msg]

----------------------------------------------------------------------------
(* run.validate_file_path, document_reader.read_document,                  *)
(* embedding_generator.generate_embeddings, pinecone_store.store_embeddings *)

\* validate_file_path(file_path)
ValidateFilePath(path) ==
    IF ~Exists(path) THEN Raise("FileNotFoundError", "File not found")
    ELSE LET suffix == PathSuffix(path)
             lower == [k \in 1..Len(suffix) |-> Lower(suffix[k])]
         IN  IF lower \notin {<<".", "d", "o", "c", "x">>, <<".", "d", "o", "c">>}
             THEN Raise("ValueError", "File must be a Word document")
             ELSE Return(path)

\* read_document(file_path): paragraphs are what Document(file_path) holds,
\* parsed is whether Document(file_path) opened the file
ReadDocument(path, paragraphs, parsed) ==
    IF ~Exists(path) THEN Raise("FileNotFoundError", "Document not found")
    ELSE IF ~parsed THEN Raise("Exception", "Error reading document")
    ELSE LET text_content ==
                 NonEmpty([k \in 1..Len(paragraphs) |-> Strip(paragraphs[k])])
             full_text == Join(text_content, <<"\n">>)
         IN  IF Strip(full_text) = <<>>
             THEN Raise("ValueError", "No text content found in document")
             ELSE Return(full_text)

\* generate_embeddings(text_chunks): m is the length of response.data, failed
\* is whether client.embeddings.create raised
GenerateEmbeddings(chunks, m, failed) ==
    IF chunks = <<>> THEN Raise("ValueError", "Text chunks list cannot be empty")
    ELSE IF failed THEN Raise("Exception", "OpenAI API error")
    ELSE Return([k \in 1..m |-> k])

\* argument checks that do not compare the two lengths
StoreArgumentErrorNoCount(embs, chunks) ==
    IF embs = <<>> THEN Raise("ValueError", "Embeddings list cannot be empty")
    ELSE IF chunks = <<>> THEN Raise("ValueError", "Text chunks list cannot be empty")
    ELSE Return(<<>>)

\* the argument checks of store_embeddings
StoreArgumentError(embs, chunks) ==
    IF embs = <<>> THEN Raise("ValueError", "Embeddings list cannot be empty")
    ELSE IF chunks = <<>> THEN Raise("ValueError", "Text chunks list cannot be empty")
    ELSE IF Len(embs) # Len(chunks)
    THEN Raise("ValueError", "Embeddings count must match text chunks count")
    ELSE Return(<<>>)

\* a vectors_to_upsert that numbers the chunks from 1
VectorsToUpsertOneBased(embs, chunks, path, now) ==
    [k \in 1..(IF Len(embs) < Len(chunks) THEN Len(embs) ELSE Len(chunks)) |->
        [id |-> GenerateVectorId(path, k),
         values |-> embs[k],
         metadata |-> CreateMetadata(chunks[k], path, k, now)]]

\* vectors_to_upsert of store_embeddings
\* (zip stops at the shorter of its two lists)
VectorsToUpsert(embs, chunks, path, now) ==
    [k \in 1..(IF Len(embs) < Len(chunks) THEN Len(embs) ELSE Len(chunks)) |->
        [id |-> GenerateVectorId(path, k - 1),
         values |-> embs[k],
         metadata |-> CreateMetadata(chunks[k], path, k - 1, now)]]

\* an index that keeps the record it has when an id is sent again
UpsertInsertOnly(idx, vectors, accepted) ==
    LET ids == {vectors[k].id : k \in accepted}
    IN  [id \in DOMAIN idx \cup ids |->
            IF id \in DOMAIN idx THEN idx[id]
            ELSE LET k == CHOOSE k \in accepted : vectors[k].id = id
                 IN  [values |-> vectors[k].values, metadata |-> vectors[k].metadata]]

\* the index after it took the vectors at the positions in accepted
Upsert(idx, vectors, accepted) ==
    LET ids == {vectors[k].id : k \in accepted}
    IN  [id \in DOMAIN idx \cup ids |->
            IF id \in ids
            THEN LET k == CHOOSE k \in accepted : vectors[k].id = id
                 IN  [values |-> vectors[k].values, metadata |-> vectors[k].metadata]
            ELSE idx[id]]

\* upsert_response.get('upserted_count', 0)
UpsertedCount(response) ==
    IF "upserted_count" \in DOMAIN response THEN response.upserted_count ELSE 0

\* the result store_embeddings returns
StoreResult(embs, path, upserted_count) ==
    [success |-> TRUE,
     vectors_stored |-> upserted_count,
     file_source |-> PathName(path),
     vector_ids |-> [k \in 1..Len(embs) |-> GenerateVectorId(path, k - 1)]]

NoResult ==
    [success |-> FALSE, vectors_stored |-> 0, file_source |-> <<>>, vector_ids |-> <<>>]

----------------------------------------------------------------------------
(* The command-line process: run.main and run.process_document *)

Running == {"main", "validate", "read", "split", "embed", "store"}

runVars == <<argv, file_path, document_text, text_chunks, embeddings, result,
             error, success, exit_code, steps, upserts>>
idVars == <<chunk_index, vector_id, metadata>>
configVars == <<CHUNK_SIZE, CHUNK_OVERLAP>>

InitRun ==
    /\ pc = "main"
    /\ argv = ""
    /\ file_path = <<>>
    /\ document_text = <<>>
    /\ text_chunks = <<>>
    /\ embeddings = <<>>
    /\ result = NoResult
    /\ error = NoError
    /\ success = ""
    /\ exit_code = -1
    /\ steps = <<>>
    /\ upserts = <<>>

Init ==
    /\ \E c \in Configs : CHUNK_SIZE = c[1] /\ CHUNK_OVERLAP = c[2]
    /\ InitRun
    /\ index = <<>>
    /\ index_before = <<>>
    /\ clock = 1
    /\ chunk_index = 0
    /\ vector_id = <<>>
    /\ metadata = NoMetadata

\* a main that exits with status 0 whatever happened
ExitZero(code) ==
    /\ exit_code' = 0
    /\ pc' = "exit"

\* sys.exit(code)
Exit(code) ==
    /\ exit_code' = code
    /\ pc' = "exit"

\* parse_arguments returns the path of the command line
ParseArguments ==
    /\ pc = "main"
    /\ \E path \in Paths :
        /\ argv' = "path"
        /\ file_path' = path
    /\ pc' = "validate"
    /\ UNCHANGED <<document_text, text_chunks, embeddings, result, error, success,
                   exit_code, steps, upserts, index, clock>>
    /\ UNCHANGED <<configVars, idVars, index_before>>

\* parser.parse_args() finds no path or more than one: argparse prints the
\* usage and raises SystemExit(2), which no handler of main catches
ParseArgumentsError ==
    /\ pc = "main"
    /\ \E a \in {"none", "extra"} : argv' = a
    /\ error' = [exc |-> "SystemExit", msg |-> "usage"]
    /\ Exit(2)
    /\ UNCHANGED <<file_path, document_text, text_chunks, embeddings, result,
                   success, steps, upserts, index, clock>>
    /\ UNCHANGED <<configVars, idVars, index_before>>

\* parser.parse_args() finds -h: argparse prints the help and raises SystemExit(0)
ParseArgumentsHelp ==
    /\ pc = "main"
    /\ argv' = "help"
    /\ error' = [exc |-> "SystemExit", msg |-> "help"]
    /\ Exit(0)
    /\ UNCHANGED <<file_path, document_text, text_chunks, embeddings, result,
                   success, steps, upserts, index, clock>>
    /\ UNCHANGED <<configVars, idVars, index_before>>

\* main: validated_path = validate_file_path(file_path)
Validate ==
    /\ pc = "validate"
    /\ LET r == ValidateFilePath(file_path)
       IN  IF r.ok
           THEN /\ pc' = "read"
                /\ UNCHANGED <<error, exit_code>>
           ELSE /\ error' = Error(r)
                /\ Exit(1)
    /\ UNCHANGED <<argv, file_path, document_text, text_chunks, embeddings,
                   result, success, steps, upserts, index, clock>>
    /\ UNCHANGED <<configVars, idVars, index_before>>

\* a process_document whose except clause reports success
ProcessSwallows(r) ==
    /\ error' = Error(r)
    /\ success' = "True"
    /\ exit_code' = 0
    /\ pc' = "exit"

\* process_document's except clause, then main's else branch: sys.exit(1)
ProcessFails(r) ==
    /\ error' = Error(r)
    /\ success' = "False"
    /\ Exit(1)

\* Step 1: document_text = read_document(file_path)
Read ==
    /\ pc = "read"
    /\ steps' = Append(steps, "Read")
    /\ \E paragraphs \in DocumentBodies, parsed \in BOOLEAN :
         LET r == ReadDocument(file_path, paragraphs, parsed)
         IN  IF r.ok
             THEN /\ document_text' = r.value
                  /\ pc' = "split"
                  /\ UNCHANGED <<error, success, exit_code>>
             ELSE /\ ProcessFails(r)
                  /\ UNCHANGED document_text
    /\ UNCHANGED <<argv, file_path, text_chunks, embeddings, result, upserts,
                   index, clock>>
    /\ UNCHANGED <<configVars, idVars, index_before>>

\* Step 2: text_chunks = split_text(document_text)
Split ==
    /\ pc = "split"
    /\ steps' = Append(steps, "Split")
    /\ LET r == SplitText(document_text, CHUNK_SIZE, CHUNK_OVERLAP)
       IN  IF r.ok
           THEN /\ text_chunks' = r.value
                /\ pc' = "embed"
                /\ UNCHANGED <<error, success, exit_code>>
           ELSE /\ ProcessFails(r)
                /\ UNCHANGED text_chunks
    /\ UNCHANGED <<argv, file_path, document_text, embeddings, result, upserts,
                   index, clock>>
    /\ UNCHANGED <<configVars, idVars, index_before>>

\* Step 3: embeddings = generate_embeddings(text_chunks)
Embed ==
    /\ pc = "embed"
    /\ steps' = Append(steps, "Embed")
    /\ \E m \in 0..(Len(text_chunks) + 1), failed \in BOOLEAN :
         LET r == GenerateEmbeddings(text_chunks, m, failed)
         IN  IF r.ok
             THEN /\ embeddings' = r.value
                  /\ pc' = "store"
                  /\ UNCHANGED <<error, success, exit_code>>
             ELSE /\ ProcessFails(r)
                  /\ UNCHANGED embeddings
    /\ UNCHANGED <<argv, file_path, document_text, text_chunks, result, upserts,
                   index, clock>>
    /\ UNCHANGED <<configVars, idVars, index_before>>

\* Step 4: store_embeddings refuses its arguments before it touches the index
StoreRefused ==
    /\ pc = "store"
    /\ steps' = Append(steps, "Store")
    /\ LET r == StoreArgumentError(embeddings, text_chunks)
       IN  /\ ~r.ok
           /\ ProcessFails(r)
    /\ UNCHANGED <<argv, file_path, document_text, text_chunks, embeddings,
                   result, upserts, index, clock>>
    /\ UNCHANGED <<configVars, idVars, index_before>>

\* Step 4: store_embeddings sends the batch; the index takes the vectors at the
\* positions in accepted and answers with response, or index.upsert raises
StoreUpsert ==
    /\ pc = "store"
    /\ steps' = Append(steps, "Store")
    /\ StoreArgumentError(embeddings, text_chunks).ok
    /\ LET vectors == VectorsToUpsert(embeddings, text_chunks, file_path, clock)
       IN  \E accepted \in SUBSET (1..Len(vectors)),
              answer \in {"count", "nocount", "raise"} :
             /\ upserts' = Append(upserts, vectors)
             /\ index' = Upsert(index, vectors, accepted)
             /\ IF answer = "raise"
                THEN /\ ProcessFails(Raise("Exception",
                                           "Error storing embeddings in Pinecone"))
                     /\ UNCHANGED result
                ELSE LET response ==
                             IF answer = "count"
                             THEN [upserted_count |-> Cardinality(accepted)]
                             ELSE [status |-> 200]
                     IN  /\ result' = StoreResult(embeddings, file_path,
                                                  UpsertedCount(response))
                         /\ success' = "True"
                         /\ Exit(0)
                         /\ UNCHANGED error
    /\ UNCHANGED <<argv, file_path, document_text, text_chunks, embeddings, clock>>
    /\ UNCHANGED <<configVars, idVars, index_before>>

\* the user interrupts the process: KeyboardInterrupt passes process_document's
\* "except Exception" and reaches main's handler
Interrupt ==
    /\ pc \in Running
    /\ error' = [exc |-> "KeyboardInterrupt", msg |-> "Operation cancelled by user"]
    /\ Exit(1)
    /\ UNCHANGED <<argv, file_path, document_text, text_chunks, embeddings,
                   result, success, steps, upserts, index, clock>>
    /\ UNCHANGED <<configVars, idVars, index_before>>

\* the command is run again, against the same index
NewRun ==
    /\ pc = "exit"
    /\ clock < MaxRuns
    /\ clock' = clock + 1
    /\ pc' = "main"
    /\ argv' = ""
    /\ file_path' = <<>>
    /\ document_text' = <<>>
    /\ text_chunks' = <<>>
    /\ embeddings' = <<>>
    /\ result' = NoResult
    /\ error' = NoError
    /\ success' = ""
    /\ exit_code' = -1
    /\ steps' = <<>>
    /\ upserts' = <<>>
    /\ index_before' = index
    /\ UNCHANGED index
    /\ UNCHANGED <<CHUNK_SIZE, CHUNK_OVERLAP, chunk_index, vector_id, metadata>>

Next ==
    \/ ParseArguments
    \/ ParseArgumentsError
    \/ ParseArgumentsHelp
    \/ Validate
    \/ Read
    \/ Split
    \/ Embed
    \/ StoreRefused
    \/ StoreUpsert
    \/ Interrupt
    \/ NewRun

Spec == Init /\ [][Next]_vars

----------------------------------------------------------------------------
(* split_text alone, on every text and configuration of the bounds *)

InitSplit ==
    /\ \E c \in Configs : CHUNK_SIZE = c[1] /\ CHUNK_OVERLAP = c[2]
    /\ InitRun
    /\ index = <<>>
    /\ index_before = <<>>
    /\ clock = 1
    /\ chunk_index = 0
    /\ vector_id = <<>>
    /\ metadata = NoMetadata

ChooseText ==
    /\ pc = "main"
    /\ \E text \in Texts : document_text' = text
    /\ pc' = "split_text"
    /\ UNCHANGED <<argv, file_path, text_chunks, embeddings, result, error,
                   success, exit_code, steps, upserts, index, clock>>
    /\ UNCHANGED <<configVars, idVars, index_before>>

CallSplitText ==
    /\ pc = "split_text"
    /\ LET r == SplitText(document_text, CHUNK_SIZE, CHUNK_OVERLAP)
       IN  /\ text_chunks' = r.value
           /\ error' = Error(r)
    /\ pc' = "returned"
    /\ UNCHANGED <<argv, file_path, document_text, embeddings, result, success,
                   exit_code, steps, upserts, index, clock>>
    /\ UNCHANGED <<configVars, idVars, index_before>>

NextSplit == ChooseText \/ CallSplitText

SpecSplit == InitSplit /\ [][NextSplit]_vars

----------------------------------------------------------------------------
(* generate_vector_id alone, on every source name and index of the bounds *)

InitId ==
    /\ CHUNK_SIZE = 1
    /\ CHUNK_OVERLAP = 0
    /\ InitRun
    /\ index = <<>>
    /\ index_before = <<>>
    /\ clock = 1
    /\ chunk_index = 0
    /\ vector_id = <<>>
    /\ metadata = NoMetadata

ChooseName ==
    /\ pc = "main"
    /\ \E name \in Names : file_path' = name
    /\ \E i \in 0..MaxIndex : chunk_index' = i
    /\ pc' = "generate_vector_id"
    /\ UNCHANGED <<argv, document_text, text_chunks, embeddings, result, error,
                   success, exit_code, steps, upserts, index, clock, vector_id,
                   metadata>>
    /\ UNCHANGED <<configVars, index_before>>

\* vector_id = generate_vector_id(file_path, i)
CallGenerateVectorId ==
    /\ pc = "generate_vector_id"
    /\ LET r == GenerateVectorIdCall(file_path, chunk_index)
       IN  /\ vector_id' = r.value
           /\ error' = [exc |-> r.exc, msg |-> r.msg]
           /\ pc' = IF r.ok THEN "create_metadata" ELSE "returned"
    /\ UNCHANGED <<argv, file_path, document_text, text_chunks, embeddings,
                   result, success, exit_code, steps, upserts, index,
                   clock, chunk_index, metadata>>
    /\ UNCHANGED <<configVars, index_before>>

\* metadata = create_metadata(text_chunk, file_path, i)
CallCreateMetadata ==
    /\ pc = "create_metadata"
    /\ \E text_chunk \in {<<"a">>, <<"a", " ", "b">>} :
         LET r == CreateMetadataCall(text_chunk, file_path, chunk_index, clock)
         IN  /\ metadata' = r.value
             /\ error' = [exc |-> r.exc, msg |-> r.msg]
    /\ pc' = "returned"
    /\ UNCHANGED <<argv, file_path, document_text, text_chunks, embeddings,
                   result, success, exit_code, steps, upserts, index,
                   clock, chunk_index, vector_id>>
    /\ UNCHANGED <<configVars, index_before>>

NextId == ChooseName \/ CallGenerateVectorId \/ CallCreateMetadata

SpecId == InitId /\ [][NextId]_vars

----------------------------------------------------------------------------
(* The claims *)

StepOrder == <<"Read", "Split", "Embed", "Store">>

IsPrefix(s, t) ==
    /\ Len(s) <= Len(t)
    /\ \A k \in 1..Len(s) : s[k] = t[k]

\* a step of process_document raised an exception its except clause catches
StepRaised ==
    /\ steps # <<>>
    /\ error.exc \in {"ValueError", "Exception", "FileNotFoundError"}

\* the names of the specification's error taxonomy, as the code raises them:
\* ValueError for refused arguments and empty text, a bare Exception around a
\* failure of the embedding provider or of the index
InvalidInput == "ValueError"
ProviderError == "Exception"

\* C1: the steps of process_document start in the order Read, Split, Embed,
\* Store, each at most once; once a step has raised, the run is over with
\* process_document returning False and no further step is started; it
\* returns True only when all four steps ran, in that order, without an error.
C1_FixedStepOrder ==
    /\ [](/\ IsPrefix(steps, StepOrder)
          /\ (success = "True" =>
                steps = StepOrder /\ error = NoError /\ pc = "exit")
          /\ (StepRaised => success = "False" /\ pc = "exit" /\ exit_code = 1)
          /\ (success = "False" => StepRaised))
    /\ [][StepRaised /\ clock' = clock => steps' = steps /\ success' = success]_vars

\* C1 witness: Embed raised after Read and Split completed
C1_Witness ==
    /\ success = "False"
    /\ steps = <<"Read", "Split", "Embed">>
    /\ text_chunks # <<>>

\* the Embed step returned fewer vectors than it was given chunks, and the
\* Store step was entered
FewerEmbeddings ==
    /\ steps = StepOrder
    /\ Len(embeddings) < Len(text_chunks)

\* C2 as stated: when Embed returns fewer vectors than chunks, no upsert is
\* sent and the run fails with a ProviderError.
C2_Original ==
    FewerEmbeddings =>
        /\ upserts = <<>>
        /\ success = "False"
        /\ error.exc = ProviderError

\* C2 amended: when Embed returns fewer vectors than chunks, no upsert is sent
\* and the run fails (process_document returns False, exit status 1) with the
\* ValueError of store_embeddings' argument checks.
C2_FewerEmbeddingsNoUpsert ==
    FewerEmbeddings =>
        /\ upserts = <<>>
        /\ index = index_before
        /\ success = "False"
        /\ exit_code = 1
        /\ error.exc = InvalidInput
        /\ error.msg \in {"Embeddings list cannot be empty",
                          "Embeddings count must match text chunks count"}

\* C2 witness: two chunks or more, one vector or more, fewer vectors than chunks
C2_Witness ==
    /\ FewerEmbeddings
    /\ Len(embeddings) >= 1
    /\ pc = "exit"

\* C3 as stated: the exit status is 0 exactly when the pipeline succeeded and
\* 1 on every failure, bad command-line arguments included.
C3_Original ==
    (pc = "exit" /\ argv # "help") =>
        exit_code = (IF success = "True" THEN 0 ELSE 1)

\* C3 amended: the exit status is 0 when the pipeline succeeded (and when
\* argparse printed the help), 2 when argparse refused the command line, and 1
\* on a missing file, a file that is no Word document, a failure of a pipeline
\* step and a user interrupt.
C3_ExitCodes ==
    pc = "exit" =>
        /\ exit_code \in {0, 1, 2}
        /\ (success = "True" => exit_code = 0)
        /\ (exit_code = 0 => success = "True" \/ argv = "help")
        /\ (error.exc = "SystemExit" /\ argv = "help" => exit_code = 0)
        /\ (error.exc = "SystemExit" /\ argv \in {"none", "extra"} => exit_code = 2)
        /\ (error.exc \in {"FileNotFoundError", "ValueError", "Exception",
                           "KeyboardInterrupt"} => exit_code = 1)
        /\ (success = "False" => exit_code = 1)

\* C3 witness: argparse refused the command line
C3_Witness ==
    /\ pc = "exit"
    /\ argv \in {"none", "extra"}
    /\ exit_code = 2

\* C4: a run that ends without every step having run, or with a number of
\* embeddings other than the number of chunks, leaves the index as it was
\* when the run started, and has sent no upsert.
C4_FailedBeforeStoreKeepsIndex ==
    (pc = "exit" /\ (steps # StepOrder \/ Len(embeddings) # Len(text_chunks))) =>
        /\ index = index_before
        /\ upserts = <<>>
        /\ success # "True"

\* C4 witness: a count mismatch against an index that already holds records
C4_Witness ==
    /\ pc = "exit"
    /\ steps = StepOrder
    /\ Len(embeddings) # Len(text_chunks)
    /\ index_before # <<>>
    /\ index = index_before

\* C5 as stated: two records get the same id only if they come from the same
\* document and the same chunk index, so no step replaces a record of the
\* index by a record of another document.
C5_Original ==
    [][\A id \in DOMAIN index :
          index'[id].metadata.file_path = index[id].metadata.file_path]_vars

\* the characters a vector id may hold: [A-Za-z0-9_]
IdCharset == AsciiAlnum \cup {"_"}

\* C6: the id generate_vector_id returns for a source name and a chunk index
\* holds only characters of [A-Za-z0-9_], is the id of that name and index,
\* and differs from the id of the same name under every other index.
C6_VectorIdShape ==
    pc = "returned" =>
        /\ \A k \in 1..Len(vector_id) : vector_id[k] \in IdCharset
        /\ vector_id = GenerateVectorId(file_path, chunk_index)
        /\ \A j \in 0..MaxIndex :
              j # chunk_index => GenerateVectorId(file_path, j) # vector_id

\* C6 witness: a name with an accented letter and an ideograph, a two-digit index
C6_Witness ==
    /\ pc = "returned"
    /\ \E k \in 1..Len(file_path) : file_path[k] = "U+00E9"
    /\ \E k \in 1..Len(file_path) : file_path[k] = "U+4E2D"
    /\ chunk_index >= 10

\* the run sent one batch and the index answered that it took all of it
StoredAll ==
    /\ pc = "exit"
    /\ upserts # <<>>
    /\ result.success
    /\ result.vectors_stored = Len(upserts[1])

BatchIds(batch) == {batch[k].id : k \in 1..Len(batch)}

C8_Original ==
    /\ Len(upserts) <= 1
    /\ (upserts # <<>> /\ result.success
          /\ result.vectors_stored # Len(upserts[1])) =>
            success = "False" /\ exit_code = 1

\* the two errors of split_text on text without content, as the code raises
\* them: the first check's ValueError, and the "no valid chunks" ValueError
\* that the except clause wraps
InvalidInputError == [exc |-> "ValueError", msg |-> "Document text cannot be empty"]
EmptyResultError ==
    [exc |-> "Exception",
     msg |-> "Error splitting text: No valid chunks created from document text"]

\* C9 as stated: the empty string fails with InvalidInput, text that is not
\* empty but all whitespace fails with EmptyResult, a different error.
C9_Original ==
    pc = "returned" =>
        /\ (document_text = <<>> => error = InvalidInputError)
        /\ (document_text # <<>> /\ Strip(document_text) = <<>> =>
              error = EmptyResultError)

\* C9 amended: split_text rejects the empty string and text that is all
\* whitespace with one and the same error, the ValueError "Document text
\* cannot be empty"; in neither case is a chunk list returned.
C9_BlankTextRejected ==
    (pc = "returned" /\ Strip(document_text) = <<>>) =>
        /\ error = InvalidInputError
        /\ text_chunks = <<>>

\* C9 witness: split_text has refused a text of whitespace only
C9_Witness ==
    /\ pc = "returned"
    /\ Len(document_text) >= 2
    /\ Strip(document_text) = <<>>
    /\ error.exc = "ValueError"

\* C10: every chunk split_text returns is at most CHUNK_SIZE long, not empty,
\* and has no whitespace at either end.
C10_ChunksBoundedAndTrimmed ==
    (pc = "returned" /\ error = NoError) =>
        /\ text_chunks # <<>>
        /\ \A k \in 1..Len(text_chunks) :
              /\ Len(text_chunks[k]) >= 1
              /\ Len(text_chunks[k]) <= CHUNK_SIZE
              /\ Strip(text_chunks[k]) = text_chunks[k]

\* C10 witness: a text longer than CHUNK_SIZE, with whitespace around it, was
\* split into several chunks, one of them of the full size
C10_Witness ==
    /\ pc = "returned"
    /\ error = NoError
    /\ Len(document_text) > CHUNK_SIZE
    /\ Strip(document_text) # document_text
    /\ Len(text_chunks) >= 2
    /\ \E k \in 1..Len(text_chunks) : Len(text_chunks[k]) = CHUNK_SIZE
    /\ CHUNK_SIZE >= 2

\* the chunks from k on, each with a prefix it shares with the end of its
\* predecessor removed, can be made to spell out the text target
RECURSIVE Reconstructs(_, _, _)
Reconstructs(chunks, k, target) ==
    IF k > Len(chunks) THEN target = <<>>
    ELSE
      LET chunk == chunks[k]
          prev == IF k = 1 THEN <<>> ELSE chunks[k - 1]
          most == IF Len(prev) < Len(chunk) THEN Len(prev) ELSE Len(chunk)
      IN  \E shared \in 0..most :
            LET residue == SubSeq(chunk, shared + 1, Len(chunk))
            IN  /\ SubSeq(chunk, 1, shared)
                     = SubSeq(prev, Len(prev) - shared + 1, Len(prev))
                /\ Len(residue) <= Len(target)
                /\ SubSeq(target, 1, Len(residue)) = residue
                /\ Reconstructs(chunks, k + 1,
                                SubSeq(target, Len(residue) + 1, Len(target)))

\* the chunks from k on lie in text, one after the other: chunk k starts at
\* start_min or later, and every character of text after position covered that
\* is in none of them is whitespace
RECURSIVE CoversButWhitespace(_, _, _, _, _)
CoversButWhitespace(text, chunks, k, start_min, covered) ==
    IF k > Len(chunks)
    THEN \A i \in (covered + 1)..Len(text) : text[i] \in Whitespace
    ELSE \E p \in start_min..(Len(text) - Len(chunks[k]) + 1) :
           LET last == p + Len(chunks[k]) - 1
           IN  /\ MatchAt(text, chunks[k], p)
               /\ \A i \in (covered + 1)..(p - 1) : text[i] \in Whitespace
               /\ CoversButWhitespace(text, chunks, k + 1, p,
                                      IF last > covered THEN last ELSE covered)

\* C11 as stated: the chunks split_text returns, each without the part it
\* shares with its predecessor, concatenate to the trimmed text, whatever
\* shared part is taken off each chunk.
C11_Original ==
    (pc = "returned" /\ error = NoError) =>
        Reconstructs(text_chunks, 1, Strip(document_text))

\* C11 amended: every chunk split_text returns is a piece of the text, the
\* pieces follow one another in it (overlapping or not), and every character
\* of the text that lies in no chunk is whitespace: the chunks reconstruct the
\* text except for whitespace at chunk boundaries.
C11_CoverageButWhitespace ==
    (pc = "returned" /\ error = NoError) =>
        CoversButWhitespace(document_text, text_chunks, 1, 1, 0)

\* C11 witness: a text of three words was split into chunks that leave out
\* the whitespace between them
C11_Witness ==
    /\ pc = "returned"
    /\ error = NoError
    /\ Len(text_chunks) >= 3
    /\ \E i \in 2..(Len(document_text) - 1) : document_text[i] \in Whitespace
    /\ ~Reconstructs(text_chunks, 1, Strip(document_text))

\* C12 as stated: deriving an id or metadata from an empty source name fails
\* with InvalidInput and produces no id; from any other name it raises nothing.
C12_Original ==
    pc = "returned" =>
        IF file_path = <<>>
        THEN error.exc = InvalidInput /\ vector_id = <<>>
        ELSE error = NoError

\* C12 amended: deriving an id and metadata raises no error for any source
\* name, the empty one included: an empty source name gives the id
\* "_chunk_<index>" and metadata whose source is empty.
C12_DerivationNeverRaises ==
    pc = "returned" =>
        /\ error = NoError
        /\ Len(vector_id) > Len(ChunkTag)
        /\ metadata.document_type = "word_document"
        /\ (file_path = <<>> =>
              /\ vector_id = ChunkTag \o IntStr(chunk_index)
              /\ metadata.source = <<>>
              /\ metadata.file_path = <<".">>)

\* C12 witness: an id and metadata were derived from the empty source name
C12_Witness ==
    /\ pc = "returned"
    /\ file_path = <<>>
    /\ vector_id # <<>>
    /\ metadata.chunk_length = 3

\* the run reached store_embeddings with as many embeddings as chunks
StoredPairs ==
    /\ pc = "exit"
    /\ steps = StepOrder
    /\ text_chunks # <<>>
    /\ Len(embeddings) = Len(text_chunks)

\* C13: for a run with n chunks and n embeddings, store_embeddings sends
\* exactly one upsert whose batch has n records in chunk order: record i
\* carries embedding i, the text of chunk i, chunk_index i, chunk_length the
\* length of chunk i and the id derived for index i, so the chunk indices
\* are exactly 0..n-1, and the vector_ids it reports are the ids of the
\* batch in the same order.
C13_OneBatchInChunkOrder ==
    StoredPairs =>
        /\ Len(upserts) = 1
        /\ LET batch == upserts[1]
               n == Len(text_chunks)
           IN  /\ Len(batch) = n
               /\ \A k \in 1..n :
                     /\ batch[k].values = embeddings[k]
                     /\ batch[k].metadata.text = text_chunks[k]
                     /\ batch[k].metadata.chunk_index = k - 1
                     /\ batch[k].metadata.chunk_length = Len(text_chunks[k])
                     /\ batch[k].id =
                           CleanName(file_path) \o ChunkTag \o IntStr(k - 1)
               /\ {batch[k].metadata.chunk_index : k \in 1..n} = 0..(n - 1)
               /\ (result.success =>
                     /\ Len(result.vector_ids) = n
                     /\ \A k \in 1..n : result.vector_ids[k] = batch[k].id)

\* C13 witness: a batch of three records was sent and its ids were reported
C13_Witness ==
    /\ StoredPairs
    /\ result.success
    /\ Len(upserts) = 1
    /\ Len(upserts[1]) = 3
    /\ Len(result.vector_ids) = 3
    /\ text_chunks[1] # text_chunks[3]

====
